---------------------------- MODULE Spec2Model ----------------------------
(***************************************************************************)
(* A model of the medical psychology agent: the supervisor graph of        *)
(* agent.py (supervisor -> retrieval_agent | direct_answer_agent), the     *)
(* retrieval pipeline of rag_tool.py, the language handler of              *)
(* translator.py, the prompt fetch of prompts.py and create_collection of  *)
(* vectorstore.py.                                                         *)
(*                                                                         *)
(* Text is a sequence of one-character strings, so that lower-casing,      *)
(* substring search, splitting and stripping are computed as the code      *)
(* computes them.  The hosted services (Langfuse, the OpenAI chat model,   *)
(* the Qdrant retriever, the Cohere reranker) are the environment: every   *)
(* call to one of them is an action whose outcome (a reply or an           *)
(* exception) is chosen nondeterministically.                              *)
(***************************************************************************)
EXTENDS Integers, Sequences, FiniteSets, TLC

\* ------------------------------------------------------------------ bounds

\* Queries one caller issues to one agent (the session driver).
MaxQueries == 1
\* Documents one vector search returns (the retriever is built with k = top_k).
MaxDocs == 4
\* Results one rerank reply holds (the service is asked for at most
\* rerank_top_n; what it sends is its own matter).
MaxResults == 4
\* Answered queries an agent has behind it when it is observed (SpecHistory).
MaxRounds == 4
\* Lines one user types into the interactive chat (SpecChat).
MaxTurns == 2
\* Calls of create_collection against one vector database (SpecIngest), and
\* the points the collection may hold at the start.
MaxRuns == 2
MaxPoints == 3
\* Calls of the translator module's functions by one caller (SpecTranslator).
MaxCalls == 2
\* Indonesian keywords, and other words, in a text given to the translator.
MaxKeywords == 2
MaxFillers == 9

\* -------------------------------------------------------- program constants

\* rag_tool.py: RAGTool.__init__(..., top_k = 5, rerank_top_n = 3)
top_k == 5
rerank_top_n == 3
\* agent.py: history = self.chat_history[-6:]
history_window == 6
\* prompts.py: len(text.strip()) < 20
min_prompt_len == 20

\* Python's None, as a text that no string equals (the elements of a text are
\* one-character strings).
None == <<"None">>

\* ---------------------------------------------------------------- str methods

Whitespace == {" ", "\n", "\t"}

UpperToLower ==
    ("A" :> "a") @@ ("B" :> "b") @@ ("C" :> "c") @@ ("D" :> "d") @@ ("E" :> "e") @@ ("F" :> "f") @@ ("G" :> "g") @@ ("H" :> "h") @@ ("I" :> "i")
    @@ ("J" :> "j") @@ ("K" :> "k") @@ ("L" :> "l") @@ ("M" :> "m") @@ ("N" :> "n") @@ ("O" :> "o") @@ ("P" :> "p") @@ ("Q" :> "q") @@ ("R" :> "r")
    @@ ("S" :> "s") @@ ("T" :> "t") @@ ("U" :> "u") @@ ("V" :> "v") @@ ("W" :> "w") @@ ("X" :> "x") @@ ("Y" :> "y") @@ ("Z" :> "z")

\* str.lower()
lower(text) ==
    [i \in 1..Len(text) |->
        IF text[i] \in DOMAIN UpperToLower THEN UpperToLower[text[i]] ELSE text[i]]

\* sub in text
Contains(sub, text) ==
    \E i \in 1..(Len(text) - Len(sub) + 1) : SubSeq(text, i, i + Len(sub) - 1) = sub

\* any(k in text for k in keywords)
ContainsAny(keywords, text) ==
    \E k \in 1..Len(keywords) : Contains(keywords[k], text)

RECURSIVE SplitFrom(_, _, _, _)
SplitFrom(text, i, cur, acc) ==
    IF i > Len(text)
    THEN IF cur = <<>> THEN acc ELSE Append(acc, cur)
    ELSE IF text[i] \in Whitespace
         THEN SplitFrom(text, i + 1, <<>>, IF cur = <<>> THEN acc ELSE Append(acc, cur))
         ELSE SplitFrom(text, i + 1, Append(cur, text[i]), acc)

\* str.split(): the maximal runs of non-whitespace characters
split(text) == SplitFrom(text, 1, <<>>, <<>>)

RECURSIVE lstrip(_, _)
lstrip(text, chars) ==
    IF text # <<>> /\ Head(text) \in chars THEN lstrip(Tail(text), chars) ELSE text

RECURSIVE rstrip(_, _)
rstrip(text, chars) ==
    IF text # <<>> /\ text[Len(text)] \in chars
    THEN rstrip(SubSeq(text, 1, Len(text) - 1), chars)
    ELSE text

\* str.strip(chars)
strip(text, chars) == rstrip(lstrip(text, chars), chars)

\* seq[-n:] taking the whole sequence
LastN_Whole(seq, n) == seq

\* seq[-n:]
LastN(seq, n) ==
    IF Len(seq) <= n THEN seq ELSE SubSeq(seq, Len(seq) - n + 1, Len(seq))

\* seq[:n]
FirstN(seq, n) ==
    IF Len(seq) <= n THEN seq ELSE SubSeq(seq, 1, n)

Range(seq) == {seq[i] : i \in 1..Len(seq)}

Min(a, b) == IF a <= b THEN a ELSE b

\* ------------------------------------------------------------- translator.py

indonesian_keywords ==
    << <<"a","p","a">>,
       <<"b","a","g","a","i","m","a","n","a">>,
       <<"m","e","n","g","a","p","a">>,
       <<"k","e","n","a","p","a">>,
       <<"k","a","p","a","n">>,
       <<"d","i","m","a","n","a">>,
       <<"s","i","a","p","a">>,
       <<"y","a","n","g">>,
       <<"d","e","n","g","a","n">>,
       <<"u","n","t","u","k">>,
       <<"d","a","r","i">>,
       <<"d","i">>,
       <<"k","e">>,
       <<"i","n","i">>,
       <<"i","t","u">>,
       <<"d","a","n">>,
       <<"a","t","a","u">>,
       <<"a","d","a","l","a","h">>,
       <<"a","d","a">>,
       <<"a","k","a","n">>,
       <<"s","a","y","a">>,
       <<"k","a","m","u">>,
       <<"m","e","r","e","k","a">>,
       <<"g","a","n","g","g","u","a","n">>,
       <<"g","e","j","a","l","a">>,
       <<"c","a","r","a">>,
       <<"m","e","n","g","a","t","a","s","i">>,
       <<"p","e","n","y","a","k","i","t">>,
       <<"t","e","r","a","p","i">>,
       <<"k","e","s","e","h","a","t","a","n">>,
       <<"m","e","n","t","a","l">>,
       <<"p","s","i","k","o","l","o","g","i">>,
       <<"d","o","k","t","e","r">>,
       <<"o","b","a","t">> >>

\* detect_language without the rule of two keywords
detect_language_ShareOnly(text) ==
    LET words == split(lower(text))
        indo_count ==
            Cardinality({i \in 1..Len(words) : words[i] \in Range(indonesian_keywords)})
    IN  IF 5 * indo_count >= Len(words) THEN "indonesian" ELSE "english"

\* LanguageHandler.detect_language.  threshold is len(words) * 0.2, a float;
\* indo_count >= threshold decides the result only for indo_count < 2, where
\* it is the comparison 5 * indo_count >= len(words) (5 * 0.2 is exactly 1.0).
detect_language(text) ==
    LET words == split(lower(text))
        indo_count ==
            Cardinality({i \in 1..Len(words) : words[i] \in Range(indonesian_keywords)})
    IN  IF 5 * indo_count >= Len(words) \/ indo_count >= 2
        THEN "indonesian"
        ELSE "english"

\* LanguageHandler.translate_to_english once the model has replied:
\* response.content.strip().strip('"\'')
CleanTranslation(content) == strip(strip(content, Whitespace), {"\"", "'"})

\* ------------------------------------------------------------------ agent.py

rag_keywords ==
    << <<"d","e","p","r","e","s","i">>,
       <<"d","e","p","r","e","s","s","i","o","n">>,
       <<"a","n","x","i","e","t","y">>,
       <<"k","e","c","e","m","a","s","a","n">>,
       <<"i","n","s","o","m","n","i","a">>,
       <<"b","i","p","o","l","a","r">>,
       <<"t","h","e","r","a","p","y">>,
       <<"t","h","e","r","a","p","i","s","t">>,
       <<"c","b","t">>,
       <<"p","t","s","d">>,
       <<"p","a","n","i","c">>,
       <<"s","u","i","c">>,
       <<"s","u","i","c","i","d","e">>,
       <<"s","c","h","i","z","o">>,
       <<"s","c","h","i","z","o","p","h","r","e","n","i","a">>,
       <<"a","d","h","d">>,
       <<"o","c","d">>,
       <<"t","r","a","u","m","a">> >>

\* RuleBasedRetrieval searching the input as typed, not lower-cased
RuleBasedRetrieval_AsTyped(input_text) == ContainsAny(rag_keywords, input_text)

\* _supervisor_node: any(k in text_lower for k in rag_keywords), where
\* text_lower = (input_text or "").lower()
RuleBasedRetrieval(input_text) == ContainsAny(rag_keywords, lower(input_text))

decision_keywords ==
    << <<"r","e","t","r","i","e","v","a","l">>,
       <<"s","e","a","r","c","h">>,
       <<"k","n","o","w","l","e","d","g","e"," ","b","a","s","e">>,
       <<"c","o","m","p","l","e","x">> >>

\* LLMDecision reading the reply as it is written
LLMDecision_AsWritten(content) ==
    LET decision_text == IF content = None THEN <<>> ELSE content
    IN  IF ContainsAny(decision_keywords, decision_text) THEN "retrieval" ELSE "direct"

\* _supervisor_node: the decision read from the supervisor model's reply,
\* decision_text = (response.content or "").lower()
LLMDecision(content) ==
    LET decision_text == lower(IF content = None THEN <<>> ELSE content)
    IN  IF ContainsAny(decision_keywords, decision_text) THEN "retrieval" ELSE "direct"

\* __main__: test_queries

test_queries ==
    << <<"H","e","l","l","o","!">>,
       <<"W","h","a","t"," ","a","r","e"," ","t","h","e"," ","s","y","m","p","t","o","m","s"," ","o",
          "f"," ","a","n","x","i","e","t","y"," ","d","i","s","o","r","d","e","r","?">>,
       <<"A","p","a"," ","i","t","u"," ","g","a","n","g","g","u","a","n"," ","d","e","p","r","e","s",
          "i","?">>,
       <<"B","a","g","a","i","m","a","n","a"," ","c","a","r","a"," ","m","e","n","g","a","t","a","s",
          "i"," ","i","n","s","o","m","n","i","a","?">> >>

\* ---------------------------------------------------------------- prompts.py

\* A template is what string.Formatter().parse yields for it: the literal
\* runs, each followed by a replacement field or by none (field_name = None);
\* an auto-numbered field "{}" has the empty field name.
\* ("->" stands for the arrow character of the source text.)

SUPERVISOR_PROMPT ==
    << [literal |->
        <<"Y","o","u"," ","a","r","e"," ","a"," ","M","e","d","i","c","a","l"," ","P","s","y","c","h",
        "o","l","o","g","y"," ","S","u","p","e","r","v","i","s","o","r"," ","A","g","e","n","t",
        " ","c","o","o","r","d","i","n","a","t","i","n","g"," ","a"," ","t","e","a","m"," ","o",
        "f"," ","s","p","e","c","i","a","l","i","z","e","d"," ","a","s","s","i","s","t","a","n",
        "t","s",".","\n","\n","A","v","a","i","l","a","b","l","e"," ","A","s","s","i","s","t",
        "a","n","t","s",":","\n","-"," ","r","e","t","r","i","e","v","a","l","_","a","g","e",
        "n","t",":"," ","S","e","a","r","c","h","e","s"," ","t","h","e"," ","m","e","d","i","c",
        "a","l"," ","p","s","y","c","h","o","l","o","g","y"," ","k","n","o","w","l","e","d","g",
        "e"," ","b","a","s","e",".","\n","-"," ","d","i","r","e","c","t","_","a","n","s","w",
        "e","r","_","a","g","e","n","t",":"," ","A","n","s","w","e","r","s"," ","s","i","m","p",
        "l","e","/","g","e","n","e","r","a","l"," ","q","u","e","s","t","i","o","n","s"," ","w",
        "i","t","h","o","u","t"," ","r","e","t","r","i","e","v","a","l",".","\n","\n","R","u",
        "l","e","s",":","\n","-"," ","I","f"," ","t","h","e"," ","u","s","e","r"," ","a","s",
        "k","s"," ","a","b","o","u","t"," ","a"," ","m","e","n","t","a","l"," ","h","e","a","l",
        "t","h"," ","c","o","n","c","e","p","t",","," ","s","y","m","p","t","o","m",","," ","d",
        "i","s","o","r","d","e","r",","," ","t","h","e","r","a","p","y",","," ","t","r","e","a",
        "t","m","e","n","t",","," ","d","i","a","g","n","o","s","i","s",","," ","m","e","d","i",
        "c","a","t","i","o","n",","," ","o","r"," ","w","a","n","t","s"," ","a","n"," ","e","x",
        "p","l","a","n","a","t","i","o","n"," ","-",">"," ","c","h","o","o","s","e"," ","r","e",
        "t","r","i","e","v","a","l","_","a","g","e","n","t",".","\n","-"," ","I","f"," ","i",
        "t"," ","i","s"," ","a"," ","g","r","e","e","t","i","n","g","/","s","m","a","l","l"," ",
        "t","a","l","k"," ","-",">"," ","c","h","o","o","s","e"," ","d","i","r","e","c","t","_",
        "a","n","s","w","e","r","_","a","g","e","n","t",".","\n","\n","U","s","e","r"," ","q",
        "u","e","r","y",":"," ">>,
        field_name |-> <<"i","n","p","u","t">>],
       [literal |->
        <<"\n","\n","R","e","t","u","r","n"," ","O","N","L","Y"," ","o","n","e"," ","w","o","r","d",":",
        " ","r","e","t","r","i","e","v","a","l"," ","o","r"," ","d","i","r","e","c","t","\n">>,
        field_name |-> None] >>

RETRIEVAL_AGENT_PROMPT ==
    << [literal |->
        <<"Y","o","u"," ","a","r","e"," ","a"," ","M","e","d","i","c","a","l"," ","P","s","y","c","h",
        "o","l","o","g","y"," ","I","n","f","o","r","m","a","t","i","o","n"," ","R","e","t","r",
        "i","e","v","a","l"," ","S","p","e","c","i","a","l","i","s","t",".","\n","\n","L","A",
        "N","G","U","A","G","E"," ","H","A","N","D","L","I","N","G",":","\n","-"," ","D","e",
        "t","e","c","t"," ","t","h","e"," ","u","s","e","r","'","s"," ","l","a","n","g","u","a",
        "g","e"," ","(","I","n","d","o","n","e","s","i","a","n"," ","o","r"," ","E","n","g","l",
        "i","s","h",")","\n","-"," ","R","e","s","p","o","n","d"," ","i","n"," ","t","h","e",
        " ","S","A","M","E"," ","l","a","n","g","u","a","g","e"," ","a","s"," ","t","h","e"," ",
        "u","s","e","r","\n","-"," ","T","h","e"," ","k","n","o","w","l","e","d","g","e"," ",
        "b","a","s","e"," ","i","s"," ","i","n"," ","E","n","g","l","i","s","h"," ","-"," ","t",
        "r","a","n","s","l","a","t","e"," ","i","n","f","o","r","m","a","t","i","o","n"," ","n",
        "a","t","u","r","a","l","l","y","\n","\n","R","u","l","e","s",":","\n","1",")"," ","U",
        "s","e"," ","t","h","e"," ","p","r","o","v","i","d","e","d"," ","c","o","n","t","e","x",
        "t"," ","t","o"," ","a","n","s","w","e","r"," ","a","c","c","u","r","a","t","e","l","y",
        ".","\n","2",")"," ","I","f"," ","c","o","n","t","e","x","t"," ","i","s"," ","i","n",
        "s","u","f","f","i","c","i","e","n","t",","," ","s","a","y"," ","s","o"," ","c","l","e",
        "a","r","l","y"," ","a","n","d"," ","a","n","s","w","e","r"," ","c","a","u","t","i","o",
        "u","s","l","y",".","\n","3",")"," ","B","e"," ","e","m","p","a","t","h","e","t","i",
        "c"," ","a","n","d"," ","a","d","d"," ","a"," ","b","r","i","e","f"," ","s","a","f","e",
        "t","y"," ","d","i","s","c","l","a","i","m","e","r"," ","w","h","e","n"," ","r","e","l",
        "e","v","a","n","t",".","\n","\n","C","o","n","t","e","x","t",":","\n">>,
        field_name |-> <<"c","o","n","t","e","x","t">>],
       [literal |->
        <<"\n","\n","U","s","e","r"," ","Q","u","e","r","y",":"," ">>,
        field_name |-> <<"i","n","p","u","t">>],
       [literal |->
        <<"\n">>,
        field_name |-> None] >>

DIRECT_ANSWER_PROMPT ==
    << [literal |->
        <<"Y","o","u"," ","a","r","e"," ","a"," ","f","r","i","e","n","d","l","y"," ","M","e","d","i",
        "c","a","l"," ","P","s","y","c","h","o","l","o","g","y"," ","A","s","s","i","s","t","a",
        "n","t",".","\n","\n","L","A","N","G","U","A","G","E"," ","H","A","N","D","L","I","N",
        "G",":","\n","-"," ","D","e","t","e","c","t"," ","t","h","e"," ","u","s","e","r","'",
        "s"," ","l","a","n","g","u","a","g","e"," ","(","I","n","d","o","n","e","s","i","a","n",
        " ","o","r"," ","E","n","g","l","i","s","h",")","\n","-"," ","R","e","s","p","o","n",
        "d"," ","i","n"," ","t","h","e"," ","S","A","M","E"," ","l","a","n","g","u","a","g","e",
        " ","a","s"," ","t","h","e"," ","u","s","e","r","\n","\n","R","u","l","e","s",":","\n",
        "-"," ","F","o","r"," ","g","r","e","e","t","i","n","g","s","/","s","m","a","l","l"," ",
        "t","a","l","k",":"," ","r","e","s","p","o","n","d"," ","w","a","r","m","l","y",".",
        "\n","-"," ","D","o"," ","n","o","t"," ","i","n","v","e","n","t"," ","c","i","t","a",
        "t","i","o","n","s"," ","o","r"," ","c","l","a","i","m"," ","y","o","u"," ","r","e","t",
        "r","i","e","v","e","d"," ","d","o","c","u","m","e","n","t","s",".","\n","\n","U","s",
        "e","r"," ","Q","u","e","r","y",":"," ">>,
        field_name |-> <<"i","n","p","u","t">>],
       [literal |->
        <<"\n">>,
        field_name |-> None] >>

bad_markers ==
    << <<"S","U","P","E","R","V","I","S","O","R","_","P","R","O","M","P","T"," ","=">>,
       <<"R","E","T","R","I","E","V","A","L","_","A","G","E","N","T","_","P","R","O","M","P","T"," ",
          "=">>,
       <<"D","I","R","E","C","T","_","A","N","S","W","E","R","_","P","R","O","M","P","T"," ","=">>,
       <<"L","A","N","G","F","U","S","E","_","P","R","O","M","P","T","S">>,
       <<"E","X","A","M","P","L","E","_","Q","U","E","R","I","E","S">>,
       <<"d","e","f"," ">>,
       <<"c","l","a","s","s"," ">>,
       <<"{","\n">> >>

\* The names the prompts are stored under
supervisor_name ==
    <<"m","e","d","i","c","a","l","_","p","s","y","c","h","o","l","o","g","y","_",
      "s","u","p","e","r","v","i","s","o","r">>
retrieval_name ==
    <<"m","e","d","i","c","a","l","_","p","s","y","c","h","o","l","o","g","y","_",
      "r","e","t","r","i","e","v","a","l">>
direct_name ==
    <<"m","e","d","i","c","a","l","_","p","s","y","c","h","o","l","o","g","y","_",
      "d","i","r","e","c","t">>

f_input == <<"i","n","p","u","t">>
f_context == <<"c","o","n","t","e","x","t">>
f_query == <<"q","u","e","r","y">>
f_documents == <<"d","o","c","u","m","e","n","t","s">>

\* Templates a Langfuse project may hold
\* "Route the user query: {input}": has only {input}
TplInput ==
    << [literal |->
        <<"R","o","u","t","e"," ","t","h","e"," ","u","s","e","r"," ","q","u","e","r","y",":"," ">>,
        field_name |-> <<"i","n","p","u","t">>] >>

\* "Answer retrieval or direct.": has no replacement field
TplNoField ==
    << [literal |->
        <<"A","n","s","w","e","r"," ","r","e","t","r","i","e","v","a","l"," ","o","r"," ","d","i","r",
        "e","c","t",".">>,
        field_name |-> None] >>

\* "Route the user query: {}": has only an auto-numbered field
TplAuto ==
    << [literal |->
        <<"R","o","u","t","e"," ","t","h","e"," ","u","s","e","r"," ","q","u","e","r","y",":"," ">>,
        field_name |-> <<>>] >>

\* "Context: {context} Question: {input}": has {context} and {input}
TplContext ==
    << [literal |->
        <<"C","o","n","t","e","x","t",":"," ">>,
        field_name |-> <<"c","o","n","t","e","x","t">>],
       [literal |->
        <<" ","Q","u","e","s","t","i","o","n",":"," ">>,
        field_name |-> <<"i","n","p","u","t">>] >>

\* "Route the user query: {query}": has only {query}
TplQuery ==
    << [literal |->
        <<"R","o","u","t","e"," ","t","h","e"," ","u","s","e","r"," ","q","u","e","r","y",":"," ">>,
        field_name |-> <<"q","u","e","r","y">>] >>

\* "Route: {input}": is shorter than min_prompt_len
TplShort ==
    << [literal |->
        <<"R","o","u","t","e",":"," ">>,
        field_name |-> <<"i","n","p","u","t">>] >>

\* "def route(q): return '{input}'": holds the marker "def "
TplCode ==
    << [literal |->
        <<"d","e","f"," ","r","o","u","t","e","(","q",")",":"," ","r","e","t","u","r","n"," ","'">>,
        field_name |-> <<"i","n","p","u","t">>],
       [literal |->
        <<"'">>,
        field_name |-> None] >>

\* "                     ": is blank
TplBlank ==
    << [literal |->
        <<" "," "," "," "," "," "," "," "," "," "," "," "," "," "," "," "," "," "," "," "," ">>,
        field_name |-> None] >>

RemoteTemplates ==
    {TplInput, TplNoField, TplAuto, TplContext, TplQuery, TplShort, TplCode, TplBlank}

\* What langfuse.get_prompt returns: a text prompt (p.prompt is a str: the
\* template, which is malformed when a single "{" follows the parsed runs) or
\* a chat prompt (p.prompt is a list of messages).
RemotePrompts ==
    [kind : {"text"}, template : RemoteTemplates, malformed : {FALSE}]
    \cup {[kind |-> "text", template |-> TplInput, malformed |-> TRUE],
          [kind |-> "text", template |-> <<>>, malformed |-> FALSE],
          [kind |-> "chat", template |-> <<>>, malformed |-> FALSE]}

RECURSIVE PartsText(_)
PartsText(t) ==
    IF t = <<>>
    THEN <<>>
    ELSE Head(t).literal
         \o (IF Head(t).field_name = None
             THEN <<>>
             ELSE <<"{">> \o Head(t).field_name \o <<"}">>)
         \o PartsText(Tail(t))

\* The string p.prompt of a text prompt
PromptText(p) == PartsText(p.template) \o (IF p.malformed THEN <<"{">> ELSE <<>>)

\* _placeholders: the field names that are not empty ("if name")
placeholders(t) == {t[i].field_name : i \in 1..Len(t)} \ {None, <<>>}

\* _looks_like_code
looks_like_code(text) == ContainsAny(bad_markers, text)

\* _is_valid_prompt: "accept", "reject", or "error" when string.Formatter
\* raises ValueError on a malformed template inside _placeholders.
is_valid_prompt(prompt_name, p) ==
    IF p.kind # "text" \/ Len(strip(PromptText(p), Whitespace)) < min_prompt_len
    THEN "reject"
    ELSE IF p.malformed
    THEN "error"
    ELSE IF looks_like_code(PromptText(p))
    THEN "reject"
    ELSE LET ph == placeholders(p.template)
         IN  IF prompt_name = supervisor_name
             THEN IF ph = {f_input} \/ ph \subseteq {f_input} THEN "accept" ELSE "reject"
             ELSE IF prompt_name = retrieval_name
             THEN IF {f_input, f_context} \subseteq ph THEN "accept" ELSE "reject"
             ELSE IF prompt_name = direct_name
             THEN IF ph = {f_input} \/ ph \subseteq {f_input} THEN "accept" ELSE "reject"
             ELSE "reject"

\* LocalPrompt falling through to the retrieval prompt
LocalPrompt_WrongDefault(prompt_name) ==
    IF prompt_name = supervisor_name
    THEN SUPERVISOR_PROMPT
    ELSE IF prompt_name = direct_name
    THEN DIRECT_ANSWER_PROMPT
    ELSE RETRIEVAL_AGENT_PROMPT

\* get_prompt_from_langfuse, the except branch: the local prompt of the name
LocalPrompt(prompt_name) ==
    IF prompt_name = supervisor_name
    THEN SUPERVISOR_PROMPT
    ELSE IF prompt_name = retrieval_name
    THEN RETRIEVAL_AGENT_PROMPT
    ELSE DIRECT_ANSWER_PROMPT

\* get_prompt_from_langfuse once get_prompt has returned p: the template when
\* it validates, the local prompt when ValueError is raised and caught.
PromptOrLocal(prompt_name, p) ==
    IF is_valid_prompt(prompt_name, p) = "accept"
    THEN p.template
    ELSE LocalPrompt(prompt_name)

\* str.format(**kwargs) raises (KeyError for a name that is no keyword,
\* IndexError for an auto-numbered field, as no positional argument is given)
FormatRaises(t, keywords) ==
    \E i \in 1..Len(t) : t[i].field_name # None /\ t[i].field_name \notin keywords

\* --------------------------------------------------------------- rag_tool.py

\* A document is named by its rank in the search result; its relevant metadata
\* (the keys source, category, specialty) is present for the odd ranks.
HasRelevantMetadata(doc) == doc % 2 = 1

no_info == "No relevant information found in the knowledge base."

\* RAGTool.format_context: the lines joined by "\n"; per document its header
\* (doc is the index idx), its page_content, its metadata line if any, and an
\* empty line.
RECURSIVE ContextParts(_, _)
ContextParts(documents, idx) ==
    IF idx > Len(documents)
    THEN <<>>
    ELSE <<[text |-> "[Document idx]", doc |-> idx],
           [text |-> "page_content", doc |-> documents[idx]]>>
         \o (IF HasRelevantMetadata(documents[idx])
             THEN <<[text |-> "Metadata: relevant_metadata", doc |-> documents[idx]]>>
             ELSE <<>>)
         \o <<[text |-> "", doc |-> 0]>>
         \o ContextParts(documents, idx + 1)

\* format_context without the test for an empty result
format_context_NoEmptyCase(documents) == ContextParts(documents, 1)

format_context(documents) ==
    IF documents = <<>>
    THEN <<[text |-> no_info, doc |-> 0]>>
    ELSE ContextParts(documents, 1)

\* RerankFallback returning every retrieved document
RerankFallback_All(documents) == documents

\* RAGTool._rerank_documents, the except branch
RerankFallback(documents) == FirstN(documents, rerank_top_n)

\* RAGTool._rerank_documents: reply.ok is FALSE when the rerank call raised,
\* else reply.results holds the result.index values of the reply (0-based; a
\* negative index counts from the end, as Python indexes a list).
\* documents[result.index] raises IndexError for an index outside
\* -len .. len-1, which the except branch catches like a failure of the call.
rerank_documents(documents, reply) ==
    LET n == Len(documents)
        results == reply.results
    IN  IF ~reply.ok
        THEN RerankFallback(documents)
        ELSE IF \E i \in 1..Len(results) : results[i] >= n \/ results[i] < -n
        THEN RerankFallback(documents)
        ELSE [i \in 1..Len(results) |->
                 IF results[i] >= 0
                 THEN documents[results[i] + 1]
                 ELSE documents[n + results[i] + 1]]

\* ------------------------------------------------------------ the environment

\* What a user may type: "", "Hi", "OCD", "di", "apa itu ocd"
UserInputs ==
    { <<>>,
      <<"H","i">>,
      <<"O","C","D">>,
      <<"d","i">>,
      <<"a","p","a"," ","i","t","u"," ","o","c","d">> }

\* response.content of the supervisor model: None, "", "direct", "Retrieval",
\* "direct_answer_agent", "search", "Knowledge Base", "complex"
SupervisorReplies ==
    { None,
      <<>>,
      <<"s","e","a","r","c","h">>,
      <<"K","n","o","w","l","e","d","g","e"," ","B","a","s","e">>,
      <<"c","o","m","p","l","e","x">>,
      <<"d","i","r","e","c","t">>,
      <<"R","e","t","r","i","e","v","a","l">>,
      <<"d","i","r","e","c","t","_","a","n","s","w","e","r","_","a","g","e","n","t">> }

\* response.content of the translation model: None, and
\* " \"what is ocd\" " with its quotation marks and blanks
TranslationReplies ==
    { None,
      <<" ","\"","w","h","a","t"," ","i","s"," ","o","c","d","\""," ">> }

\* response.content of the answering model
Answers == { <<"A","1">>, <<"A","2">> }

\* The injective sequences over S of length at most n
InjectiveSeqs(S, n) ==
    UNION { {r \in [1..k -> S] : \A i, j \in 1..k : i # j => r[i] # r[j]} : k \in 0..n }

\* What the rerank call may do for n documents: raise, or return up to
\* MaxResults results whose indexes are distinct, where the index n is past
\* the end; or return the index -1, which Python reads as the last document.
RerankReplies(n) ==
    { [ok |-> FALSE, results |-> <<>>] }
    \cup { [ok |-> TRUE, results |-> r] : r \in InjectiveSeqs(0..n, MaxResults) }
    \cup { [ok |-> TRUE, results |-> <<-1>>] }

\* ------------------------------------------------------------------- the state

VARIABLES
    collection,       \* the vector database: whether the collection exists, and the
                      \* points it holds
    driver,           \* who calls: "session", "main" (agent.py __main__), "check_prompts",
                      \* "history" (a session that is under way), "translator" (a
                      \* caller of the translator module), "chat" (agent.chat),
                      \* "ingest" (a caller of create_collection)
    script,           \* main: the test queries left; check_prompts: the names left
    queries,          \* the calls of query() made so far
    use_reranker,     \* RAGTool.use_reranker
    use_translation,  \* RAGTool.use_translation
    chat_history,     \* MedicalPsychologyAgent.chat_history
    handler,          \* translator._handler: 0 for None, else the number of the
                      \* LanguageHandler it holds, in the order of construction
    pc,               \* where the running call stands
    state,            \* the AgentState of the running query
    nodes,            \* the graph nodes entered by the running query, in order
    calls,            \* the steps of the running call, in order, each with its outcome
    prompt_name,      \* get_prompt_from_langfuse: its argument
    fetched,          \* get_prompt_from_langfuse: p, once get_prompt has returned
    prompt_template,  \* what get_prompt_from_langfuse returned
    reply,            \* _supervisor_node: response.content; for a caller of the
                      \* translator module, what the last call returned
    search_query,     \* RAGTool.retrieve: search_query; for a caller of the
                      \* translator module, the text of the last call
    retrieved,        \* RAGTool.retrieve: what retriever.invoke returned
    documents,        \* RAGTool.retrieve: documents
    response,         \* what query() returned
    sent              \* the messages handed to the last llm.invoke, while the
                      \* function that built them runs

vars ==
    << collection, driver, script, queries, use_reranker, use_translation, chat_history, handler,
       pc, state, nodes, calls, prompt_name, fetched, prompt_template, reply,
       search_query, retrieved, documents, response, sent >>

HumanMessage(content) == [type |-> "human", content |-> content]
AIMessage(content) == [type |-> "ai", content |-> content]

Call(op, ok) == [op |-> op, ok |-> ok]

\* A step that is handed a query string
CallWith(op, ok, arg) == [op |-> op, ok |-> ok, arg |-> arg]

\* Python's None where a context (a sequence of lines) is expected
NoContext == <<[text |-> "None", doc |-> -1]>>

NoPrompt == [kind |-> "none", template |-> <<>>, malformed |-> FALSE]

NoState ==
    [messages |-> <<>>, input |-> None, context |-> <<>>, agent_decision |-> "",
     final_answer |-> None]

NoResponse ==
    [answer |-> None, agent_used |-> "", context_used |-> NoContext, query |-> None]

\* The collection: absent, as create_collection makes it, and as the agent
\* finds it once ingest.py has run
Absent == [exists |-> FALSE, points |-> 0]
Empty == [exists |-> TRUE, points |-> 0]
Ingested == [exists |-> TRUE, points |-> 1]

\* MedicalPsychologyAgent.__init__ and RAGTool.__init__:
\* self.use_reranker = use_reranker and Config.COHERE_API_KEY is not None.
\* (langfuse_handler only selects between llm.invoke with and without the
\* tracing callbacks, and is left out.)
AgentInit(reranker_arg, cohere_key, translation_arg) ==
    /\ collection = Ingested
    /\ use_reranker = (reranker_arg /\ cohere_key)
    /\ use_translation = translation_arg
    /\ chat_history = <<>>
    /\ handler = 0
    /\ queries = 0
    /\ pc = "idle"
    /\ state = NoState
    /\ nodes = <<>>
    /\ calls = <<>>
    /\ prompt_name = None
    /\ fetched = NoPrompt
    /\ prompt_template = <<>>
    /\ reply = None
    /\ search_query = None
    /\ retrieved = <<>>
    /\ documents = <<>>
    /\ response = NoResponse
    /\ sent = <<>>

\* An agent built with any arguments, whose caller issues queries (app.py's
\* chat input handler, MedicalPsychologyAgent.chat)
Init ==
    /\ driver = "session"
    /\ script = <<>>
    /\ \E reranker_arg, cohere_key, translation_arg \in BOOLEAN :
           AgentInit(reranker_arg, cohere_key, translation_arg)

\* agent.py run as a program: the agent is built with every feature on and is
\* asked the test queries in turn
InitMain ==
    /\ driver = "main"
    /\ script = test_queries
    /\ \E cohere_key \in BOOLEAN : AgentInit(TRUE, cohere_key, TRUE)

\* ------------------------------------------------------- what the models are sent

SystemMessage(content) == [type |-> "system", content |-> content]

\* str.format(**kwargs) on a template none of whose fields raises: the text is
\* kept as its runs, each literal followed by the value put in its field
format(t, kwargs) ==
    [i \in 1..Len(t) |->
        [literal |-> t[i].literal,
         value |-> IF t[i].field_name = None THEN <<>> ELSE kwargs[t[i].field_name]]]

\* The keywords _supervisor_node formats the template with
supervisor_keywords == {f_input, f_query, f_context, f_documents}

\* _supervisor_node: the keywords of prompt_template.format and their values
supervisor_kwargs(input_text) ==
    [k \in supervisor_keywords |-> IF k \in {f_input, f_query} THEN input_text ELSE <<>>]

\* _retrieval_agent_node: RETRIEVAL_AGENT_PROMPT.format(context=context, input=input_text)
retrieval_prompt(context, input_text) ==
    format(RETRIEVAL_AGENT_PROMPT,
           [k \in {f_context, f_input} |-> IF k = f_context THEN context ELSE input_text])

\* _direct_answer_node: DIRECT_ANSWER_PROMPT.format(input=input_text)
direct_prompt(input_text) ==
    format(DIRECT_ANSWER_PROMPT, [k \in {f_input} |-> input_text])

\* LLMMessages with the messages of the graph state put before the prompt
LLMMessages_WithState(s, prompt) == s.messages \o <<SystemMessage(prompt)>>

\* The three nodes: messages = [SystemMessage(content=prompt)], in a node
\* that holds the graph state s
LLMMessages(s, prompt) == <<SystemMessage(prompt)>>

\* translate_to_english: the content of system_message
translator_system ==
    "You are a medical translator specializing in psychology and mental health terminology.\n"
    \o "            \n"
    \o "Your task: Translate Indonesian medical/psychology queries to English accurately.\n"
    \o "\n"
    \o "Guidelines:\n"
    \o "- Maintain medical terminology precision\n"
    \o "- Keep the query structure and intent\n"
    \o "- Only output the English translation, nothing else\n"
    \o "- No explanations or additional text"

\* translate_to_english: [system_message, human_message]
TranslationMessages(text) ==
    <<SystemMessage(translator_system),
      HumanMessage(
        <<"T","r","a","n","s","l","a","t","e"," ","t","o"," ","E","n","g","l","i","s","h",":","\n","\n">>
        \o text)>>

\* ------------------------------------------------------------------ the graph

\* _route_query
route_query(s) == s.agent_decision

\* GraphEdge with both routes mapped to the retrieval node
GraphEdge_OneNode(route) == "retrieval_agent"

\* _build_graph: the conditional edges from the supervisor
GraphEdge(route) ==
    IF route = "retrieval" THEN "retrieval_agent" ELSE "direct_answer_agent"

\* InitialState carrying the context of the query before over
InitialState_KeepContext(history_source, user_input) ==
    [messages |-> LastN(history_source, history_window) \o <<HumanMessage(user_input)>>,
     input |-> user_input,
     context |-> state.context,
     agent_decision |-> "",
     final_answer |-> <<>>]

\* MedicalPsychologyAgent.query up to graph.invoke
InitialState(history_source, user_input) ==
    [messages |-> LastN(history_source, history_window) \o <<HumanMessage(user_input)>>,
     input |-> user_input,
     context |-> <<>>,
     agent_decision |-> "",
     final_answer |-> <<>>]

StartQuery(user_input) ==
    /\ state' = InitialState(chat_history, user_input)
    /\ queries' = queries + 1
    /\ pc' = "supervisor"
    /\ nodes' = <<>>
    /\ calls' = <<>>
    /\ prompt_name' = None
    /\ fetched' = NoPrompt
    /\ prompt_template' = <<>>
    /\ reply' = None
    /\ search_query' = None
    /\ retrieved' = <<>>
    /\ documents' = <<>>
    /\ response' = NoResponse
    /\ sent' = <<>>
    /\ UNCHANGED <<collection, driver, use_reranker, use_translation, chat_history, handler>>

\* app.py: the chat input handler calls query() and catches what it raises,
\* so the next input is served by the same agent
SessionQuery ==
    /\ driver = "session"
    /\ pc \in {"idle", "raised"}
    /\ queries < MaxQueries
    /\ \E user_input \in UserInputs : StartQuery(user_input)
    /\ UNCHANGED script

\* agent.py __main__: for q in test_queries: agent.query(q)
MainQuery ==
    /\ driver = "main"
    /\ pc = "idle"
    /\ script # <<>>
    /\ StartQuery(Head(script))
    /\ script' = Tail(script)

\* _supervisor_node, the rule-based routing
SupervisorRule ==
    /\ pc = "supervisor"
    /\ nodes' = Append(nodes, "supervisor")
    /\ IF RuleBasedRetrieval(state.input)
       THEN /\ state' = [state EXCEPT !.agent_decision = "retrieval"]
            /\ pc' = GraphEdge(route_query(state'))
            /\ UNCHANGED prompt_name
       ELSE /\ pc' = "get_prompt"
            /\ prompt_name' = supervisor_name
            /\ UNCHANGED state
    /\ UNCHANGED << collection, driver, script, queries, use_reranker, use_translation, chat_history,
                    handler, calls, fetched, prompt_template, reply, search_query,
                    retrieved, documents, response, sent >>

\* get_prompt_from_langfuse returns template to its caller: check_prompts
\* inspects it, _supervisor_node formats it (which may raise) and goes on to
\* the supervisor model.
PromptReturned(template) ==
    /\ prompt_template' = template
    /\ IF driver = "check_prompts"
       THEN pc' = "inspect"
       ELSE IF FormatRaises(template, supervisor_keywords)
       THEN pc' = "raised"
       ELSE pc' = "supervisor_llm"

\* AfterFetchRaised trying again whenever get_prompt raises
AfterFetchRaised_Again(with_label) == "get_prompt_nolabel"

\* get_prompt_from_langfuse: where get_prompt raising leads.  The call with
\* the label is inside the inner try, whose except calls get_prompt without
\* the label; that call is inside the outer try only, whose except returns
\* the local prompt.
AfterFetchRaised(with_label) ==
    IF with_label THEN "get_prompt_nolabel" ELSE "local"

\* get_prompt raised
FetchRaised(with_label) ==
    IF AfterFetchRaised(with_label) = "local"
    THEN PromptReturned(LocalPrompt(prompt_name))
    ELSE /\ pc' = AfterFetchRaised(with_label)
         /\ UNCHANGED prompt_template

\* get_prompt_from_langfuse: Langfuse(), then get_prompt(prompt_name, label=label)
GetPrompt ==
    /\ pc = "get_prompt"
    /\ \/ /\ calls' = Append(calls, Call("Langfuse", FALSE))
          /\ PromptReturned(LocalPrompt(prompt_name))
          /\ UNCHANGED fetched
       \/ /\ calls' = calls \o <<Call("Langfuse", TRUE), Call("get_prompt", FALSE)>>
          /\ FetchRaised(TRUE)
          /\ UNCHANGED fetched
       \/ \E p \in RemotePrompts :
             /\ calls' = calls \o <<Call("Langfuse", TRUE), Call("get_prompt", TRUE)>>
             /\ fetched' = p
             /\ PromptReturned(PromptOrLocal(prompt_name, p))
    /\ UNCHANGED << collection, driver, script, queries, use_reranker, use_translation, chat_history,
                    handler, state, nodes, prompt_name, reply, search_query, retrieved,
                    documents, response, sent >>

\* get_prompt_from_langfuse: get_prompt(prompt_name), after the call with the
\* label raised
GetPromptNoLabel ==
    /\ pc = "get_prompt_nolabel"
    /\ \/ /\ calls' = Append(calls, Call("get_prompt", FALSE))
          /\ FetchRaised(FALSE)
          /\ UNCHANGED fetched
       \/ \E p \in RemotePrompts :
             /\ calls' = Append(calls, Call("get_prompt", TRUE))
             /\ fetched' = p
             /\ PromptReturned(PromptOrLocal(prompt_name, p))
    /\ UNCHANGED << collection, driver, script, queries, use_reranker, use_translation, chat_history,
                    handler, state, nodes, prompt_name, reply, search_query, retrieved,
                    documents, response, sent >>

\* _supervisor_node: llm.invoke and the decision.  The node returns: of its
\* locals only the reply is kept, until the next node starts.
SupervisorLLM ==
    /\ pc = "supervisor_llm"
    /\ sent' = LLMMessages(state, format(prompt_template, supervisor_kwargs(state.input)))
    /\ \/ /\ calls' = Append(calls, Call("supervisor_llm", FALSE))
          /\ pc' = "raised"
          /\ UNCHANGED <<state, reply, prompt_name, fetched, prompt_template>>
       \/ \E content \in SupervisorReplies :
             /\ calls' = Append(calls, Call("supervisor_llm", TRUE))
             /\ reply' = content
             /\ state' = [state EXCEPT !.agent_decision = LLMDecision(content)]
             /\ pc' = GraphEdge(route_query(state'))
             /\ prompt_name' = None
             /\ fetched' = NoPrompt
             /\ prompt_template' = <<>>
    /\ UNCHANGED << collection, driver, script, queries, use_reranker, use_translation, chat_history,
                    handler, nodes, search_query, retrieved, documents, response >>

\* ------------------------------------------------------------ RAGTool.retrieve

\* get_handler building a LanguageHandler at every call
get_handler_Always(h) == h + 1

\* get_handler forgetting the LanguageHandler it holds
get_handler_Drop(h) == IF h = 0 THEN h + 1 ELSE 0

\* translator.get_handler: _handler after the call, which is also the handler
\* the call returns; a LanguageHandler is built only when _handler is None
get_handler(h) == IF h = 0 THEN h + 1 ELSE h

\* retrieve has its documents: the node formats them and goes on to the
\* answering model
Retrieved(docs) ==
    /\ documents' = docs
    /\ state' = [state EXCEPT !.context = format_context(docs)]
    /\ pc' = "retrieval_llm"

\* TranslateFirst without the test of use_translation
TranslateFirst_Detected(text) == detect_language(text) = "indonesian"

\* retrieve: whether the query is translated before the search
TranslateFirst(text) == use_translation /\ detect_language(text) = "indonesian"

\* _retrieval_agent_node enters retrieve: detect_language, through
\* translator.get_handler, when translation is on
RetrieveStart ==
    /\ pc = "retrieval_agent"
    /\ nodes' = Append(nodes, "retrieval_agent")
    /\ search_query' = state.input
    /\ IF use_translation
       THEN /\ handler' = get_handler(handler)
            /\ calls' = Append(calls, Call("detect_language", TRUE))
       ELSE UNCHANGED <<handler, calls>>
    /\ pc' = IF TranslateFirst(state.input) THEN "translate" ELSE "search"
    /\ reply' = None
    /\ sent' = <<>>
    /\ UNCHANGED << collection, driver, script, queries, use_reranker, use_translation, chat_history,
                    state, prompt_name, fetched, prompt_template, retrieved, documents,
                    response >>

\* Translation returning the empty string when the call fails
Translation_EmptyOnFailure(text, ok, content) ==
    IF ok /\ content # None THEN CleanTranslation(content) ELSE <<>>

\* LanguageHandler.translate_to_english: what it returns for the reply of the
\* model; content is None makes response.content.strip() raise inside the try
Translation(text, ok, content) ==
    IF ok /\ content # None THEN CleanTranslation(content) ELSE text

\* translate_to_english(query), through translator.get_handler
Translate ==
    /\ pc = "translate"
    /\ handler' = get_handler(handler)
    /\ sent' = TranslationMessages(state.input)
    /\ \/ /\ calls' = Append(calls, Call("translate", FALSE))
          /\ search_query' = Translation(state.input, FALSE, None)
       \/ \E content \in TranslationReplies :
             /\ calls' = Append(calls, Call("translate", content # None))
             /\ search_query' = Translation(state.input, TRUE, content)
    /\ pc' = "search"
    /\ UNCHANGED << collection, driver, script, queries, use_reranker, use_translation, chat_history,
                    state, nodes, prompt_name, fetched, prompt_template, reply,
                    retrieved, documents, response >>

\* ShouldRerank without the test on the number of documents
ShouldRerank_AnyLength(docs) == use_reranker

\* retrieve: whether the documents go to the reranker
ShouldRerank(docs) == use_reranker /\ Len(docs) > 1

\* self.retriever.invoke(search_query)
Search ==
    /\ pc = "search"
    /\ sent' = <<>>
    /\ \/ /\ calls' = Append(calls, CallWith("search", FALSE, search_query))
          /\ pc' = "raised"
          /\ UNCHANGED <<retrieved, documents, state>>
       \/ \E n \in 0..Min(MaxDocs, top_k) :
             LET docs == [i \in 1..n |-> i]
             IN  /\ calls' = Append(calls, CallWith("search", TRUE, search_query))
                 /\ retrieved' = docs
                 /\ IF docs # <<>> /\ ShouldRerank(docs)
                    THEN /\ documents' = docs
                         /\ pc' = "rerank"
                         /\ UNCHANGED state
                    ELSE Retrieved(docs)
    /\ UNCHANGED << collection, driver, script, queries, use_reranker, use_translation, chat_history,
                    handler, nodes, prompt_name, fetched, prompt_template, reply,
                    search_query, response >>

\* Whether _rerank_documents gets through its try block
RerankSucceeds(docs, r) ==
    /\ r.ok
    /\ \A i \in 1..Len(r.results) : r.results[i] < Len(docs) /\ r.results[i] >= -Len(docs)

\* self._rerank_documents(search_query, documents)
Rerank ==
    /\ pc = "rerank"
    /\ \E r \in RerankReplies(Len(documents)) :
          /\ calls' = Append(calls, CallWith("rerank", RerankSucceeds(documents, r),
                                             search_query))
          /\ Retrieved(rerank_documents(documents, r))
    /\ UNCHANGED << collection, driver, script, queries, use_reranker, use_translation, chat_history,
                    handler, nodes, prompt_name, fetched, prompt_template, reply,
                    search_query, retrieved, response, sent >>

\* ------------------------------------------------------------ the answer nodes

\* The node has the reply of the model
Answered(content) ==
    state' = [state EXCEPT !.final_answer = content,
                           !.messages = Append(@, AIMessage(content))]

\* _retrieval_agent_node: llm.invoke on RETRIEVAL_AGENT_PROMPT
RetrievalLLM ==
    /\ pc = "retrieval_llm"
    /\ sent' = LLMMessages(state, retrieval_prompt(state.context, state.input))
    /\ \/ /\ calls' = Append(calls, Call("answer_llm", FALSE))
          /\ pc' = "raised"
          /\ UNCHANGED state
       \/ \E content \in Answers :
             /\ calls' = Append(calls, Call("answer_llm", TRUE))
             /\ Answered(content)
             /\ pc' = "return"
    /\ UNCHANGED nodes
    /\ UNCHANGED << collection, driver, script, queries, use_reranker, use_translation, chat_history,
                    handler, prompt_name, fetched, prompt_template, reply, search_query,
                    retrieved, documents, response >>

\* _direct_answer_node: llm.invoke on DIRECT_ANSWER_PROMPT
DirectLLM ==
    /\ pc = "direct_answer_agent"
    /\ nodes' = Append(nodes, "direct_answer_agent")
    /\ \/ /\ calls' = Append(calls, Call("answer_llm", FALSE))
          /\ pc' = "raised"
          /\ UNCHANGED state
       \/ \E content \in Answers :
             /\ calls' = Append(calls, Call("answer_llm", TRUE))
             /\ Answered(content)
             /\ pc' = "return"
    /\ reply' = None
    /\ sent' = LLMMessages(state, direct_prompt(state.input))
    /\ UNCHANGED << collection, driver, script, queries, use_reranker, use_translation, chat_history,
                    handler, prompt_name, fetched, prompt_template, search_query,
                    retrieved, documents, response >>

\* ExtendHistory with the answer node's append landing in the history too
ExtendHistory_Twice(history, final_state) ==
    history \o <<HumanMessage(final_state.input), AIMessage(final_state.final_answer),
                 AIMessage(final_state.final_answer)>>

\* query after graph.invoke: what chat_history becomes
ExtendHistory(history, final_state) ==
    history \o <<HumanMessage(final_state.input), AIMessage(final_state.final_answer)>>

\* Response handing the context over as it is, the empty one too
Response_ContextAsIs(final_state) ==
    [answer |-> final_state.final_answer,
     agent_used |-> final_state.agent_decision,
     context_used |-> final_state.context,
     query |-> final_state.input]

\* query after graph.invoke: the response
Response(final_state) ==
    [answer |-> final_state.final_answer,
     agent_used |-> final_state.agent_decision,
     context_used |-> IF final_state.context # <<>> THEN final_state.context ELSE NoContext,
     query |-> final_state.input]

QueryReturn ==
    /\ pc = "return"
    /\ chat_history' = ExtendHistory(chat_history, state)
    /\ response' = Response(state)
    /\ calls' = Append(calls, Call("return", TRUE))
    /\ pc' = "idle"
    /\ sent' = <<>>
    /\ UNCHANGED << collection, driver, script, queries, use_reranker, use_translation, handler, state,
                    nodes, prompt_name, fetched, prompt_template, reply, search_query,
                    retrieved, documents >>

QueryStep ==
    \/ SupervisorRule
    \/ GetPrompt
    \/ GetPromptNoLabel
    \/ SupervisorLLM
    \/ RetrieveStart
    \/ Translate
    \/ Search
    \/ Rerank
    \/ RetrievalLLM
    \/ DirectLLM
    \/ QueryReturn

Next == SessionQuery \/ QueryStep

Spec == Init /\ [][Next]_vars

NextMain == MainQuery \/ QueryStep

SpecMain == InitMain /\ [][NextMain]_vars

\* The session when every call that was made comes back, by returning or by
\* raising: graph.invoke runs the nodes on, one step after the other
SpecTerminates == Init /\ [][Next]_vars /\ WF_vars(QueryStep)

\* ------------------------------------------------------ scripts/check_prompts.py

\* A name no prompt is stored under
other_name == <<"o","t","h","e","r">>

\* main fetches the three prompts in turn
check_prompts_names == <<supervisor_name, retrieval_name, direct_name>>

\* The callers of get_prompt_from_langfuse outside the agent: check_prompts.py,
\* and a call with a name that is none of the three.  No agent is queried.
InitPrompts ==
    /\ driver = "check_prompts"
    /\ script \in {check_prompts_names, <<other_name>>}
    /\ AgentInit(TRUE, TRUE, TRUE)

\* main: get_prompt_from_langfuse(name), for the next name
CallGetPrompt ==
    /\ driver = "check_prompts"
    /\ pc = "idle"
    /\ script # <<>>
    /\ prompt_name' = Head(script)
    /\ script' = Tail(script)
    /\ fetched' = NoPrompt
    /\ prompt_template' = <<>>
    /\ calls' = <<>>
    /\ pc' = "get_prompt"
    /\ UNCHANGED << collection, driver, queries, use_reranker, use_translation, chat_history, handler,
                    state, nodes, reply, search_query, retrieved, documents, response, sent >>

\* main: inspect_prompt(name, template)
InspectPrompt ==
    /\ pc = "inspect"
    /\ pc' = "idle"
    /\ UNCHANGED << collection, driver, script, queries, use_reranker, use_translation, chat_history,
                    handler, state, nodes, calls, prompt_name, fetched, prompt_template,
                    reply, search_query, retrieved, documents, response, sent >>

NextPrompts == CallGetPrompt \/ GetPrompt \/ GetPromptNoLabel \/ InspectPrompt

SpecPrompts == InitPrompts /\ [][NextPrompts]_vars

\* ------------------------------------------------- an agent with a history

\* A query answered earlier: "Hi" answered "A1", or "OCD" answered "A2"
PastRounds ==
    { << <<"H","i">>, <<"A","1">> >>,
      << <<"O","C","D">>, <<"A","2">> >> }

\* chat_history after the given answered queries: query() appends the user
\* message and the answer of each
HistoryOf(rounds) ==
    [i \in 1..(2 * Len(rounds)) |->
        IF i % 2 = 1
        THEN HumanMessage(rounds[(i + 1) \div 2][1])
        ELSE AIMessage(rounds[i \div 2][2])]

\* The histories an agent holds after at most MaxRounds answered queries, of
\* which no two in a row were the same
PastHistories ==
    UNION { {HistoryOf(rounds) :
                rounds \in {r \in [1..k -> PastRounds] : \A i \in 1..(k - 1) : r[i] # r[i + 1]}} :
            k \in 0..MaxRounds }

\* The agent of app.py (every feature asked for, the Cohere key configured or
\* not) after it has answered some queries
InitHistory ==
    /\ driver = "history"
    /\ script = <<>>
    /\ \E cohere_key \in BOOLEAN : use_reranker = (TRUE /\ cohere_key)
    /\ use_translation = TRUE
    /\ chat_history \in PastHistories
    /\ collection = Ingested
    /\ handler \in {0, get_handler(0)}
    /\ queries = 0
    /\ pc = "idle"
    /\ state = NoState
    /\ nodes = <<>>
    /\ calls = <<>>
    /\ prompt_name = None
    /\ fetched = NoPrompt
    /\ prompt_template = <<>>
    /\ reply = None
    /\ search_query = None
    /\ retrieved = <<>>
    /\ documents = <<>>
    /\ response = NoResponse
    /\ sent = <<>>

\* The next query of that agent
HistoryQuery ==
    /\ driver = "history"
    /\ pc = "idle"
    /\ queries = 0
    /\ \E user_input \in UserInputs : StartQuery(user_input)
    /\ UNCHANGED script

NextHistory == HistoryQuery \/ QueryStep

SpecHistory == InitHistory /\ [][NextHistory]_vars

\* ------------------------------------------------ the translator's functions

\* k keywords, "di" followed by a blank and "Apa" followed by a tab in turn
KeywordWords(k) ==
    [i \in 1..(7 * (k \div 2) + 3 * (k % 2)) |->
        LET j == (i - 1) % 7
        IN  IF j = 0 THEN "d" ELSE IF j = 1 THEN "i" ELSE IF j = 2 THEN " "
            ELSE IF j = 3 THEN "A" ELSE IF j = 4 THEN "p" ELSE IF j = 5 THEN "a"
            ELSE "\t"]

\* m words "x", each followed by a blank
FillerWords(m) == [i \in 1..(2 * m) |-> IF i % 2 = 1 THEN "x" ELSE " "]

\* The texts given to the translator: the user inputs, and texts of up to
\* MaxKeywords keywords and MaxFillers other words, in either order
TranslatorTexts ==
    UserInputs
    \cup { KeywordWords(k) \o FillerWords(m) : k \in 0..MaxKeywords, m \in 0..MaxFillers }
    \cup { FillerWords(m) \o KeywordWords(k) : k \in 0..MaxKeywords, m \in 0..MaxFillers }

\* A call of one of the module's functions, with the handler it ran on
HandlerCall(op, ok, h) == [op |-> op, ok |-> ok, by |-> h]

\* A program that imports translator.py and has called nothing yet
InitTranslator ==
    /\ driver = "translator"
    /\ script = <<>>
    /\ AgentInit(FALSE, FALSE, FALSE)

\* Every function of the module starts with handler = get_handler()
TranslatorCall(op, ok, text, result) ==
    /\ Len(calls) < MaxCalls
    /\ handler' = get_handler(handler)
    /\ calls' = Append(calls, HandlerCall(op, ok, handler'))
    /\ search_query' = text
    /\ reply' = result
    /\ sent' = IF op = "translate" THEN TranslationMessages(text) ELSE <<>>
    /\ UNCHANGED << collection, driver, script, queries, use_reranker, use_translation, chat_history,
                    pc, state, nodes, prompt_name, fetched, prompt_template, retrieved,
                    documents, response >>

\* translator.detect_language(text)
CallDetectLanguage ==
    /\ driver = "translator"
    /\ \E text \in TranslatorTexts :
          TranslatorCall("detect_language", TRUE, text, detect_language(text))

\* LanguageHandler.should_translate
should_translate(text) == detect_language(text) = "indonesian"

\* translator.should_translate(text)
CallShouldTranslate ==
    /\ driver = "translator"
    /\ \E text \in TranslatorTexts :
          TranslatorCall("should_translate", TRUE, text, should_translate(text))

\* translator.translate_to_english(text)
CallTranslateToEnglish ==
    /\ driver = "translator"
    /\ \E text \in TranslatorTexts :
          \/ TranslatorCall("translate", FALSE, text, Translation(text, FALSE, None))
          \/ \E content \in TranslationReplies :
                 TranslatorCall("translate", content # None, text,
                                Translation(text, TRUE, content))

\* translator.get_handler()
CallGetHandler ==
    /\ driver = "translator"
    /\ TranslatorCall("get_handler", TRUE, None, get_handler(handler))

NextTranslator ==
    \/ CallDetectLanguage
    \/ CallShouldTranslate
    \/ CallTranslateToEnglish
    \/ CallGetHandler

SpecTranslator == InitTranslator /\ [][NextTranslator]_vars

\* ------------------------------------------------ MedicalPsychologyAgent.chat

\* What the user types at the prompt: "Hi", " OCD" with a newline, "apa itu",
\* an empty line, "Keluar"
ChatLines ==
    { <<"H","i">>,
      <<"a","p","a"," ","i","t","u">>,
      <<" ","O","C","D","\n">>,
      <<>>,
      <<"K","e","l","u","a","r">> }

\* The inputs that end the chat
quit_words ==
    { <<"q","u","i","t">>, <<"e","x","i","t">>, <<"b","y","e">>, <<"k","e","l","u","a","r">> }

\* An agent built with the default arguments, the Cohere key configured or not
InitChat ==
    /\ driver = "chat"
    /\ script = <<>>
    /\ \E cohere_key \in BOOLEAN : AgentInit(TRUE, cohere_key, TRUE)

\* chat: one turn of the loop.  A quit word ends the chat, an empty line is
\* skipped, anything else is a query; what query() raises ends the chat, for
\* nothing catches it.
ChatTurn ==
    /\ driver = "chat"
    /\ pc = "idle"
    /\ queries < MaxTurns
    /\ \E line \in ChatLines :
          LET user_input == strip(line, Whitespace)
          IN  IF lower(user_input) \in quit_words
              THEN /\ pc' = "quit"
                   /\ UNCHANGED << queries, use_reranker, use_translation, chat_history,
                                   handler, state, nodes, calls, prompt_name, fetched,
                                   prompt_template, reply, search_query, retrieved,
                                   documents, response, sent, driver, collection >>
              ELSE IF user_input = <<>>
              THEN UNCHANGED << queries, use_reranker, use_translation, chat_history,
                                handler, pc, state, nodes, calls, prompt_name, fetched,
                                prompt_template, reply, search_query, retrieved,
                                documents, response, sent, driver, collection >>
              ELSE StartQuery(user_input)
    /\ UNCHANGED script

NextChat == ChatTurn \/ QueryStep

SpecChat == InitChat /\ [][NextChat]_vars

\* ------------------------------------------ VectorStoreManager.create_collection

\* A vector database in which the collection exists or not, and a program that
\* has a VectorStoreManager (ingest.py, which calls create_collection with
\* recreate = True, or any other caller)
InitIngest ==
    /\ driver = "ingest"
    /\ script = <<>>
    /\ collection \in {Absent} \cup {[exists |-> TRUE, points |-> n] : n \in 0..MaxPoints}
    /\ use_reranker = FALSE
    /\ use_translation = FALSE
    /\ chat_history = <<>>
    /\ handler = 0
    /\ queries = 0
    /\ pc = "idle"
    /\ state = NoState
    /\ nodes = <<>>
    /\ calls = <<>>
    /\ prompt_name = None
    /\ fetched = NoPrompt
    /\ prompt_template = <<>>
    /\ reply = None
    /\ search_query = None
    /\ retrieved = <<>>
    /\ documents = <<>>
    /\ response = NoResponse
    /\ sent = <<>>

\* What create_collection is called with, and what the database held then
CreateCall(recreate, existed) ==
    [op |-> "create_collection()", ok |-> TRUE, recreate |-> recreate, existed |-> existed]

\* create_collection(recreate = ...) is called; script holds its argument
CallCreateCollection ==
    /\ driver = "ingest"
    /\ pc \in {"idle", "raised"}
    /\ queries < MaxRuns
    /\ \E recreate \in BOOLEAN :
          /\ script' = <<recreate>>
          /\ calls' = <<CreateCall(recreate, collection)>>
    /\ queries' = queries + 1
    /\ pc' = "get_collections"
    /\ UNCHANGED << collection, driver, use_reranker, use_translation, chat_history, handler,
                    state, nodes, prompt_name, fetched, prompt_template, reply,
                    search_query, retrieved, documents, response, sent >>

\* AfterListing deleting whenever the collection exists
AfterListing_AlwaysRecreate(exists, recreate) ==
    IF exists THEN "delete_collection" ELSE "create_collection"

\* create_collection: where it goes once it knows whether the collection exists
AfterListing(exists, recreate) ==
    IF exists
    THEN IF recreate THEN "delete_collection" ELSE "idle"
    ELSE "create_collection"

\* self.client.get_collections(): it raises, or lists the collections there are
GetCollections ==
    /\ pc = "get_collections"
    /\ \/ /\ calls' = Append(calls, Call("get_collections", FALSE))
          /\ pc' = "raised"
       \/ /\ pc' = AfterListing(collection.exists, Head(script))
          /\ calls' = calls \o <<Call("get_collections", TRUE)>>
                         \o (IF pc' = "idle" THEN <<Call("return", TRUE)>> ELSE <<>>)
    /\ UNCHANGED << collection, driver, script, queries, use_reranker, use_translation,
                    chat_history, handler, state, nodes, prompt_name, fetched,
                    prompt_template, reply, search_query, retrieved, documents, response, sent >>

\* self.client.delete_collection(name): when it raises, the collection may be
\* gone all the same
DeleteCollection ==
    /\ pc = "delete_collection"
    /\ \/ /\ calls' = Append(calls, Call("delete_collection", FALSE))
          /\ collection' \in {collection, Absent}
          /\ pc' = "raised"
       \/ /\ calls' = Append(calls, Call("delete_collection", TRUE))
          /\ collection' = Absent
          /\ pc' = "create_collection"
    /\ UNCHANGED << driver, script, queries, use_reranker, use_translation,
                    chat_history, handler, state, nodes, prompt_name, fetched,
                    prompt_template, reply, search_query, retrieved, documents, response, sent >>

\* self.client.create_collection(...): when it raises, the collection may be
\* there all the same; then create_collection returns
CreateCollection ==
    /\ pc = "create_collection"
    /\ \/ /\ calls' = Append(calls, Call("create_collection", FALSE))
          /\ collection' \in {collection, Empty}
          /\ pc' = "raised"
       \/ /\ calls' = calls \o <<Call("create_collection", TRUE), Call("return", TRUE)>>
          /\ collection' = Empty
          /\ pc' = "idle"
    /\ UNCHANGED << driver, script, queries, use_reranker, use_translation,
                    chat_history, handler, state, nodes, prompt_name, fetched,
                    prompt_template, reply, search_query, retrieved, documents, response, sent >>

NextIngest ==
    \/ CallCreateCollection
    \/ GetCollections
    \/ DeleteCollection
    \/ CreateCollection

SpecIngest == InitIngest /\ [][NextIngest]_vars

\* ------------------------------------------------------- app.py, the chat input

\* The note app.py puts under the answer: if response["context_used"]
UILabel(resp) ==
    IF resp.context_used # NoContext /\ resp.context_used # <<>>
    THEN "knowledge base (RAG)"
    ELSE "general response"

\* The has_context entry of the stored message's metadata
has_context(resp) == resp.context_used # NoContext

\* ------------------------------------------------------------------ the claims

\* The entries of calls for one step
CallsOf(op) == {i \in 1..Len(calls) : calls[i].op = op}
Count(op) == Cardinality(CallsOf(op))
Failed(op) == \E i \in CallsOf(op) : ~calls[i].ok
Succeeded(op) == \E i \in CallsOf(op) : calls[i].ok
LastCall == calls[Len(calls)]

\* query() has returned a response
Returned == response # NoResponse

\* The texts a query is made with
QueryTexts ==
    UserInputs \cup Range(test_queries) \cup {strip(line, Whitespace) : line \in ChatLines}

\* For each of them, whether the lower-cased text holds one of the supervisor's
\* keywords, and the language detect_language finds
RagKeywordIn ==
    [text \in QueryTexts |-> \E k \in Range(rag_keywords) : Contains(k, lower(text))]
LanguageOf == [text \in QueryTexts |-> detect_language(text)]

\* The lower-cased input holds one of the supervisor's keywords
HasRagKeyword(text) == RagKeywordIn[text]

\* The decision a reply of the supervisor model stands for
ReplyDecision(content) ==
    IF content # None /\ \E k \in Range(decision_keywords) : Contains(k, lower(content))
    THEN "retrieval"
    ELSE "direct"

\* C1: a query runs the supervisor node and then exactly one of the two answer
\* nodes, never both; when query() returns, one answer node has run and
\* agent_used is "retrieval" or "direct", naming the node that ran.
C1_ExactlyOneAnswerNode ==
    /\ nodes \in { <<>>, <<"supervisor">>,
                   <<"supervisor", "retrieval_agent">>,
                   <<"supervisor", "direct_answer_agent">> }
    /\ (pc = "return" \/ Returned) => Len(nodes) = 2
    /\ Returned =>
          \/ response.agent_used = "retrieval" /\ nodes[2] = "retrieval_agent"
          \/ response.agent_used = "direct" /\ nodes[2] = "direct_answer_agent"

C1_Witness ==
    /\ Returned
    /\ response.agent_used = "direct"
    /\ nodes = <<"supervisor", "direct_answer_agent">>

\* C2: when the lower-cased input holds a RAG keyword the decision is
\* "retrieval" and neither the prompt fetch nor the supervisor model is called;
\* otherwise the supervisor model is called at most once, exactly once when the
\* supervisor node is through, and the decision is the one its reply stands for.
C2_KeywordThenSingleLLMFallback ==
    Len(nodes) >= 1 =>
        IF HasRagKeyword(state.input)
        THEN /\ state.agent_decision = "retrieval"
             /\ Count("Langfuse") = 0
             /\ Count("get_prompt") = 0
             /\ Count("supervisor_llm") = 0
        ELSE /\ Count("supervisor_llm") <= 1
             /\ (Len(nodes) = 2 \/ pc \in {"retrieval_agent", "direct_answer_agent"})
                    => Count("supervisor_llm") = 1 /\ Succeeded("supervisor_llm")
             /\ (Len(nodes) = 1 /\ pc \in {"retrieval_agent", "direct_answer_agent"})
                    => state.agent_decision = ReplyDecision(reply)

C2_Witness ==
    /\ pc = "retrieval_agent"
    /\ ~HasRagKeyword(state.input)
    /\ Count("supervisor_llm") = 1
    /\ reply = <<"R","e","t","r","i","e","v","a","l">>
    /\ state.agent_decision = "retrieval"

\* The place of a step in the retrieval path, 0 for the other steps
StepRank(op) ==
    CASE op = "detect_language" -> 1
      [] op = "translate" -> 2
      [] op = "search" -> 3
      [] op = "rerank" -> 4
      [] op = "answer_llm" -> 5
      [] op = "return" -> 6
      [] OTHER -> 0

IsRetrievalStep(c) == StepRank(c.op) > 0

RetrievalSteps == SelectSeq(calls, IsRetrievalStep)

\* C3: on the retrieval path the steps occur in the order detection,
\* translation, search, reranking, answer, return, none of them twice;
\* translation only after a detection that found Indonesian, reranking only
\* when the reranker is on and the search returned more than one document; a
\* query that returns has searched, asked the answering model and returned.
C3_RetrievalStepOrder ==
    "retrieval_agent" \in Range(nodes) =>
        LET steps == RetrievalSteps
        IN  /\ \A i \in 1..(Len(steps) - 1) :
                   StepRank(steps[i].op) < StepRank(steps[i + 1].op)
            /\ Count("translate") > 0 =>
                   /\ Count("detect_language") = 1
                   /\ LanguageOf[state.input] = "indonesian"
            /\ Count("rerank") > 0 => use_reranker /\ Len(retrieved) > 1
            /\ Returned =>
                   /\ Count("search") = 1
                   /\ Count("answer_llm") = 1
                   /\ LastCall.op = "return"

C3_Witness ==
    /\ Returned
    /\ [i \in 1..Len(RetrievalSteps) |-> RetrievalSteps[i].op]
           = <<"detect_language", "translate", "search", "rerank", "answer_llm", "return">>

\* C4: when an external call of a query has failed, the failure does not
\* propagate out of query().
C4_NoFailurePropagates ==
    (\E i \in 1..Len(calls) : ~calls[i].ok) => pc # "raised"

\* C5: when the translation call fails, the search query is the original
\* query, for the search and the reranking alike, and retrieve goes on to the
\* search.
C5_TranslationFailureKeepsQuery ==
    Failed("translate") =>
        /\ search_query = state.input
        /\ LastCall.op = "translate" => pc = "search"

C5_Witness ==
    /\ Failed("translate")
    /\ Succeeded("search")
    /\ Count("rerank") = 1
    /\ state.input # <<>>
    /\ search_query = state.input

\* C6: when the rerank call fails, or a result index is outside the retrieved
\* list, retrieve raises nothing and returns the first rerank_top_n retrieved
\* documents in the order of the retrieval.
C6_RerankFailureKeepsOrder ==
    Failed("rerank") =>
        /\ documents = SubSeq(retrieved, 1, Min(rerank_top_n, Len(retrieved)))
        /\ state.context = format_context(documents)
        /\ LastCall.op = "rerank" => pc = "retrieval_llm"

C6_Witness ==
    /\ Failed("rerank")
    /\ Len(retrieved) > rerank_top_n
    /\ documents = <<1, 2, 3>>
    /\ pc = "retrieval_llm"

\* C7: when the search returns no document, retrieve returns the empty list
\* and the reranker is not called, the context is the fixed text, and the node
\* goes on to ask the answering model, once; the query returns its answer.
C7_EmptySearch ==
    (Succeeded("search") /\ retrieved = <<>>) =>
        /\ documents = <<>>
        /\ Count("rerank") = 0
        /\ state.context
               = <<[text |-> "No relevant information found in the knowledge base.",
                    doc |-> 0]>>
        /\ LastCall.op = "search" => pc = "retrieval_llm"
        /\ Count("answer_llm") <= 1
        /\ Returned =>
               /\ Count("answer_llm") = 1
               /\ response.answer \in Answers
               /\ response.answer = state.final_answer

C7_Witness ==
    /\ Succeeded("search")
    /\ retrieved = <<>>
    /\ Returned
    /\ response.answer \in Answers
    /\ response.context_used = format_context(<<>>)

\* C8: get_prompt_from_langfuse always returns a template and never raises:
\* the remote template when get_prompt returned one that passes the
\* validation, else the local prompt of the name, the direct prompt for a name
\* that is neither the supervisor's nor the retrieval's.
C8_PromptOrLocalFallback ==
    /\ pc # "raised"
    /\ pc = "inspect" =>
          IF fetched # NoPrompt /\ is_valid_prompt(prompt_name, fetched) = "accept"
          THEN prompt_template = fetched.template
          ELSE prompt_template =
                   IF prompt_name = supervisor_name THEN SUPERVISOR_PROMPT
                   ELSE IF prompt_name = retrieval_name THEN RETRIEVAL_AGENT_PROMPT
                   ELSE DIRECT_ANSWER_PROMPT

C8_Witness ==
    /\ pc = "inspect"
    /\ prompt_name = retrieval_name
    /\ fetched.template = TplQuery
    /\ prompt_template = RETRIEVAL_AGENT_PROMPT

\* C9, as claimed: within one query no external operation is attempted a
\* second time.
C9_NoSecondAttempt ==
    \A i, j \in 1..Len(calls) : i # j => calls[i].op # calls[j].op

\* C9, amended: only get_prompt is attempted a second time, once, right after
\* its call with the label failed; every other operation is attempted at most
\* once.
C9_RetryOnlyPromptFetch ==
    \A i, j \in 1..Len(calls) :
        (i < j /\ calls[i].op = calls[j].op) =>
            /\ calls[i].op = "get_prompt"
            /\ ~calls[i].ok
            /\ j = i + 1
            /\ Count("get_prompt") = 2

C9_Witness ==
    /\ Count("get_prompt") = 2
    /\ Succeeded("get_prompt")
    /\ Count("supervisor_llm") = 1

\* C10: the history the agent holds is the last few turns, at most 3 user and
\* 3 assistant messages.
C10_HistoryBounded == Len(chat_history) <= history_window


\* C11: the messages handed to the graph are the last min(6, len(chat_history))
\* messages of the stored history in their stored order, followed by the
\* current user message; they are never more than 7.
C11_MessagesHanded ==
    pc = "supervisor" =>
        LET k == IF Len(chat_history) < 6 THEN Len(chat_history) ELSE 6
        IN  /\ Len(state.messages) = k + 1
            /\ Len(state.messages) <= 7
            /\ \A i \in 1..k : state.messages[i] = chat_history[Len(chat_history) - k + i]
            /\ state.messages[k + 1] = [type |-> "human", content |-> state.input]

C11_Witness ==
    /\ pc = "supervisor"
    /\ Len(chat_history) = 8
    /\ Len(state.messages) = 7
    /\ state.messages[1] = chat_history[3]
    /\ state.messages[1] # chat_history[1]
    /\ state.messages[7].content = <<"d","i">>

\* C12: every query starts with context, agent_decision and final_answer
\* empty; the context comes from this query's search only and the answer from
\* this query's answering call only, so a query on the direct path has no
\* context and reports context_used = None, whatever the query before it left.
C12_FreshPerRequest ==
    /\ pc = "supervisor" =>
           /\ state.context = <<>>
           /\ state.agent_decision = ""
           /\ state.final_answer = <<>>
    /\ (queries > 0 /\ ~Succeeded("search")) => state.context = <<>>
    /\ (queries > 0 /\ ~Succeeded("answer_llm")) => state.final_answer = <<>>
    /\ (Len(nodes) = 2 /\ nodes[2] = "direct_answer_agent") => state.context = <<>>
    /\ Returned =>
           /\ response.query = state.input
           /\ response.answer = state.messages[Len(state.messages)].content
           /\ nodes[2] = "direct_answer_agent" => response.context_used = NoContext
           /\ nodes[2] = "retrieval_agent" => response.context_used = format_context(documents)

C12_Witness ==
    /\ queries = 2
    /\ Len(chat_history) = 4
    /\ chat_history[1].content = <<"O","C","D">>
    /\ Returned
    /\ nodes = <<"supervisor", "direct_answer_agent">>
    /\ response.context_used = NoContext

NamesRetrieval(text) ==
    \/ Contains(<<"r","e","t","r","i","e","v","a","l">>, lower(text))
    \/ Contains(<<"s","e","a","r","c","h">>, lower(text))
    \/ Contains(<<"k","n","o","w","l","e","d","g","e"," ","b","a","s","e">>, lower(text))
    \/ Contains(<<"c","o","m","p","l","e","x">>, lower(text))

\* C14: when no RAG keyword matches the input, the decision the supervisor
\* node leaves is "retrieval" if and only if the lower-cased reply of the
\* model holds one of the four substrings, and "direct" otherwise, a missing
\* or empty reply included; the query goes to the node of the decision, so a
\* reply that is the direct agent's name goes to the direct node.
C14_LLMFallbackDecision ==
    (Len(nodes) = 1 /\ pc \in {"retrieval_agent", "direct_answer_agent"}
        /\ ~HasRagKeyword(state.input)) =>
        /\ state.agent_decision \in {"retrieval", "direct"}
        /\ state.agent_decision = "retrieval" <=> (reply # None /\ NamesRetrieval(reply))
        /\ pc = "retrieval_agent" <=> state.agent_decision = "retrieval"
        /\ reply \in {None, <<>>} => pc = "direct_answer_agent"
        /\ reply \in {<<"d","i","r","e","c","t">>, <<"d","i","r","e","c","t","_","a","n","s","w","e","r","_","a","g","e","n","t">>} => pc = "direct_answer_agent"

C14_Witness ==
    /\ Len(nodes) = 1
    /\ ~HasRagKeyword(state.input)
    /\ reply = <<"K","n","o","w","l","e","d","g","e"," ","B","a","s","e">>
    /\ state.agent_decision = "retrieval"
    /\ pc = "retrieval_agent"

\* C15: in retrieve the translation model is called if and only if
\* use_translation is on and the query is detected as Indonesian; when it is
\* not called the search is issued with the query as given; the reranking,
\* when it happens, is handed the query string the search was handed.
C15_TranslateIffIndonesian ==
    "retrieval_agent" \in Range(nodes) =>
        /\ Count("translate") <= 1
        /\ (pc = "search" \/ Count("search") > 0) =>
               (Count("translate") = 1
                    <=> (use_translation /\ LanguageOf[state.input] = "indonesian"))
        /\ Count("translate") = 0 =>
               \A i \in CallsOf("search") : calls[i].arg = state.input
        /\ \A i \in CallsOf("rerank") :
               /\ Count("search") = 1
               /\ \A j \in CallsOf("search") : calls[i].arg = calls[j].arg

C15_Witness ==
    /\ Succeeded("translate")
    /\ Count("rerank") = 1
    /\ \A i \in CallsOf("rerank") : calls[i].arg = <<"w","h","a","t"," ","i","s"," ","o","c","d">>
    /\ \A i \in CallsOf("search") : calls[i].arg # state.input

\* The whitespace-separated lower-cased words of a text, and how many of them
\* are Indonesian keywords
WordCount(text) == Len(split(lower(text)))
KeywordCount(text) ==
    LET words == split(lower(text))
    IN  Cardinality({i \in 1..Len(words) :
                       \E k \in 1..Len(indonesian_keywords) : words[i] = indonesian_keywords[k]})

C17_RerankBounds ==
    /\ Count("rerank") > 0 => use_reranker /\ Len(retrieved) > 1
    /\ (Succeeded("search") /\ pc # "rerank") =>
           /\ \A i \in 1..Len(documents) : \E j \in 1..Len(retrieved) : documents[i] = retrieved[j]
           /\ Count("rerank") > 0 => Len(documents) <= rerank_top_n
           /\ ~use_reranker => documents = retrieved

\* C18: a remote template is accepted for the supervisor's name only if it
\* has the field input, for the retrieval name only if it has input and
\* context, for the direct name only if it has input; a template for another
\* name, one of fewer than 20 characters once stripped, and one holding a code
\* marker are rejected.
C18_ValidationRules ==
    (pc = "inspect" /\ fetched # NoPrompt /\ prompt_template = fetched.template
        /\ prompt_template # LocalPrompt(prompt_name)) =>
        LET fields == {fetched.template[i].field_name : i \in 1..Len(fetched.template)}
        IN  /\ prompt_name = supervisor_name => f_input \in fields
            /\ prompt_name = retrieval_name => f_input \in fields /\ f_context \in fields
            /\ prompt_name = direct_name => f_input \in fields
            /\ prompt_name \in {supervisor_name, retrieval_name, direct_name}
            /\ Len(strip(PromptText(fetched), Whitespace)) >= min_prompt_len
            /\ ~looks_like_code(PromptText(fetched))

\* The call of create_collection that is running or has ended
ThisCreate == calls[1]

\* C19: create_collection, when the collection exists and recreate is false,
\* issues neither delete nor create and leaves the collection as it is; when
\* it exists and recreate is true, it issues delete before create; when it
\* does not exist it issues create only; when it returns the collection
\* exists.
C19_CreateCollection ==
    (driver = "ingest" /\ calls # <<>>) =>
        /\ (ThisCreate.existed.exists /\ ~ThisCreate.recreate) =>
               /\ Count("delete_collection") = 0
               /\ Count("create_collection") = 0
               /\ collection = ThisCreate.existed
        /\ (ThisCreate.existed.exists /\ ThisCreate.recreate) =>
               /\ \A i \in CallsOf("create_collection") :
                      \E j \in CallsOf("delete_collection") : j < i /\ calls[j].ok
               /\ Succeeded("return") => Count("delete_collection") = 1
        /\ ~ThisCreate.existed.exists =>
               /\ Count("delete_collection") = 0
               /\ Succeeded("return") => Count("create_collection") = 1
        /\ Count("delete_collection") <= 1
        /\ Count("create_collection") <= 1
        /\ Succeeded("return") => collection.exists

C19_Witness ==
    /\ driver = "ingest"
    /\ queries = 2
    /\ calls # <<>>
    /\ ThisCreate.existed = [exists |-> TRUE, points |-> 0]
    /\ ThisCreate.recreate
    /\ Succeeded("delete_collection")
    /\ Succeeded("create_collection")
    /\ Succeeded("return")
    /\ collection.exists

\* C20: after any sequence of calls of the translator module's functions at
\* most one LanguageHandler has been built through get_handler (handlers are
\* numbered as they are built, so the number held is the number built), and
\* every call has run on that one handler.
C20_SingletonHandler ==
    driver = "translator" =>
        /\ handler \in {0, 1}
        /\ handler = 0 <=> calls = <<>>
        /\ \A i \in 1..Len(calls) : calls[i].by = 1 /\ calls[i].by = calls[1].by

C20_Witness ==
    /\ driver = "translator"
    /\ Len(calls) = 2
    /\ calls[1].op = "detect_language"
    /\ calls[2].op = "translate"
    /\ calls[2].by = calls[1].by
    /\ handler = 1


\* The running query has ended: query() returned or raised
Ended == queries > 0 /\ pc \in {"idle", "raised"}

\* Every call the query made to an external service returned
AllReturned == \A i \in 1..Len(calls) : calls[i].ok

\* Under SpecTerminates: every query that is started ends, by a return or by
\* a raise
QueryTerminates == (pc = "supervisor") ~> Ended

\* C21: a query whose external calls all returned has, when it ends, called
\* the answering model exactly once and the supervisor model at most once; on
\* the retrieval path it has searched exactly once, translated at most once
\* and reranked at most once; on the direct path it has not searched,
\* translated or reranked, and its context is empty.
C21_FixedCalls ==
    (Ended /\ AllReturned) =>
        /\ Count("answer_llm") = 1
        /\ Count("supervisor_llm") <= 1
        /\ IF state.agent_decision = "retrieval"
           THEN /\ Count("search") = 1
                /\ Count("translate") <= 1
                /\ Count("rerank") <= 1
           ELSE /\ Count("search") = 0
                /\ Count("translate") = 0
                /\ Count("rerank") = 0
                /\ state.context = <<>>


\* The number of queries of the program run that were answered: a query that
\* raises ends the run, so every query before the running one was answered
AnsweredQueries == IF pc = "idle" \/ queries = 0 THEN queries ELSE queries - 1

\* chat_history is the answered queries' pairs, in query order
HistoryPairs ==
    /\ Len(chat_history) = 2 * AnsweredQueries
    /\ \A i \in 1..AnsweredQueries :
          /\ chat_history[2 * i - 1] = HumanMessage(test_queries[i])
          /\ chat_history[2 * i].type = "ai"
    /\ (pc = "idle" /\ queries > 0) =>
          chat_history[2 * queries] = AIMessage(response.answer)

\* chat_history changes only when query() returns, by the pair of the input
\* and the answer that is returned
HistoryStep ==
    /\ (chat_history' # chat_history) =>
          /\ pc = "return" /\ pc' = "idle"
          /\ chat_history' =
                chat_history \o <<HumanMessage(state.input), AIMessage(response'.answer)>>
    /\ (pc' = "raised") => (chat_history' = chat_history)
    /\ (pc = "return") => (chat_history' # chat_history)

\* C22: after n answered queries chat_history holds the 2n messages user,
\* assistant, user, assistant, ... in query order, each assistant message being
\* the answer returned for its query, stored once; a query that raises leaves
\* chat_history as it was.
C22_HistoryPairs == [](HistoryPairs) /\ [][HistoryStep]_vars

C22_Witness ==
    /\ driver = "main"
    /\ pc = "raised"
    /\ queries = 3
    /\ Len(chat_history) = 4
    /\ chat_history[4].content # chat_history[2].content


\* C23: in every response context_used is None exactly when agent_used is
\* "direct"; on the retrieval path it is a non-empty text, the fixed
\* no-information text when the search found no document, and the UI puts the
\* knowledge-base note under the answer.
C23_ContextUsed ==
    Returned =>
        /\ response.agent_used \in {"retrieval", "direct"}
        /\ (response.context_used = NoContext) <=> (response.agent_used = "direct")
        /\ (response.agent_used = "retrieval") =>
              /\ response.context_used # <<>>
              /\ \E i \in 1..Len(response.context_used) :
                    response.context_used[i].text # ""
              /\ (retrieved = <<>>) =>
                    response.context_used = <<[text |-> no_info, doc |-> 0]>>
              /\ UILabel(response) = "knowledge base (RAG)"
              /\ has_context(response)
        /\ (response.agent_used = "direct") =>
              /\ UILabel(response) = "general response"
              /\ ~has_context(response)

C23_Witness ==
    /\ Returned
    /\ response.agent_used = "retrieval"
    /\ Count("search") = 1
    /\ retrieved = <<>>
    /\ response.context_used = format_context(<<>>)
    /\ UILabel(response) = "knowledge base (RAG)"


\* The templates _supervisor_node may come to format without raising
SupervisorTemplates ==
    {SUPERVISOR_PROMPT}
    \cup {t \in RemoteTemplates : ~FormatRaises(t, supervisor_keywords)}

\* What the search may be asked: the input, or a translation of it
SearchQueries(input_text) ==
    {input_text} \cup {Translation(input_text, TRUE, c) : c \in TranslationReplies}

\* What the running query has sent, decided, retrieved and returned is given
\* by its input and the replies it got, whatever chat_history holds
HistoryFree ==
    /\ (sent # <<>> /\ calls # <<>> /\ LastCall.op = "supervisor_llm") =>
          /\ Len(sent) = 1
          /\ sent[1].type = "system"
          /\ \E t \in SupervisorTemplates :
                sent[1].content = format(t, supervisor_kwargs(state.input))
    /\ (sent # <<>> /\ calls # <<>> /\ LastCall.op = "translate") =>
          /\ Len(sent) = 2
          /\ sent = TranslationMessages(state.input)
    /\ (sent # <<>> /\ calls # <<>> /\ LastCall.op = "answer_llm") =>
          /\ Len(sent) = 1
          /\ sent[1].type = "system"
          /\ sent[1].content =
                IF state.agent_decision = "retrieval"
                THEN retrieval_prompt(state.context, state.input)
                ELSE direct_prompt(state.input)
    /\ (pc \in {"retrieval_agent", "direct_answer_agent"}) =>
          state.agent_decision =
              IF HasRagKeyword(state.input) THEN "retrieval" ELSE ReplyDecision(reply)
    /\ \A i \in CallsOf("search") \cup CallsOf("rerank") :
          calls[i].arg \in SearchQueries(state.input)
    /\ (pc \in {"retrieval_llm", "return"} /\ state.agent_decision = "retrieval") =>
          state.context = format_context(documents)
    /\ (state.agent_decision # "retrieval" /\ queries > 0) => state.context = <<>>
    /\ Returned => response = Response(state)

\* The supervisor model is sent the one system message that holds the fetched
\* template formatted with the input
HistoryFreeStep ==
    (pc = "supervisor_llm") =>
        /\ Len(sent') = 1
        /\ sent' = <<SystemMessage(format(prompt_template, supervisor_kwargs(state.input)))>>

\* C24: for an agent with any past chat_history, the routing decision, the
\* messages sent to each model, the context and the answer of a query are
\* given by the input and the replies of the external services alone; the
\* history messages of the graph state are sent to no model.
C24_HistoryIndependent == [](HistoryFree) /\ [][HistoryFreeStep]_vars

C24_Witness ==
    /\ driver = "history"
    /\ Len(chat_history) >= 2
    /\ Len(state.messages) >= 3
    /\ calls # <<>>
    /\ LastCall.op = "supervisor_llm"
    /\ LastCall.ok
    /\ sent = <<SystemMessage(format(TplInput, supervisor_kwargs(state.input)))>>
==========================================================================
